---- MODULE Spec2Model ----
(***************************************************************************)
(* Model of energy_monitor.py: the EnergyDataCollector class, the          *)
(* module-level function collect_and_store_data (the collection run) and   *)
(* main().                                                                 *)
(*                                                                         *)
(* Numbers: Python floats are modelled as scaled integers.  load_kwh and   *)
(* co2_intensity are whole numbers; manufacturing_factor 0.23 is 23        *)
(* hundredths, so energy_kwh is held in hundredths of a kWh; the price     *)
(* 0.10 is 100 thousandths, so cost_eur is held in units of 1e-5 EUR;      *)
(* co2eq_g is held in hundredths of a gram.  Floating-point rounding is    *)
(* not modelled.                                                           *)
(***************************************************************************)
EXTENDS Integers, Sequences, FiniteSets, TLC

VARIABLES entry, pc, influx_client, ctor_raised, run_raised,
          clock, today_utc, days_to_collect, start_utc, end_utc,
          content, parse_result,
          load_outcome, co2_outcome,
          load_data, co2_intensity, price_data, points,
          writes, log, calls

vars == <<entry, pc, influx_client, ctor_raised, run_raised,
          clock, today_utc, days_to_collect, start_utc, end_utc,
          content, parse_result,
          load_outcome, co2_outcome,
          load_data, co2_intensity, price_data, points,
          writes, log, calls>>

(***************************************************************************)
(* Bounds of the model.                                                    *)
(***************************************************************************)
\* TimeSeries elements in a load document
MaxTimeSeries == 2
\* Period elements in a load document, over all its TimeSeries
MaxPeriods == 3
\* Point elements in a Period
MaxPoints == 2
\* days_to_collect, when the window is computed on its own
MaxDays == 7
\* load points and price points, when the batch is composed on its own
MaxLoad == 2
MaxPrices == 2

(***************************************************************************)
(* datetime: naive-UTC calendar fields, as datetime.datetime holds them.   *)
(***************************************************************************)
NoDatetime ==
  [year |-> 0, month |-> 0, day |-> 0,
   hour |-> 0, minute |-> 0, second |-> 0, microsecond |-> 0]

DateTime(y, mo, d, h, mi, s, us) ==
  [year |-> y, month |-> mo, day |-> d,
   hour |-> h, minute |-> mi, second |-> s, microsecond |-> us]

IsLeap(y) == (y % 4 = 0) /\ ((y % 100 # 0) \/ (y % 400 = 0))

DaysInMonth(y, m) ==
  IF m = 2 THEN (IF IsLeap(y) THEN 29 ELSE 28)
  ELSE IF m \in {4, 6, 9, 11} THEN 30 ELSE 31

RECURSIVE DaysBeforeMonth(_, _)
DaysBeforeMonth(y, m) ==
  IF m = 1 THEN 0 ELSE DaysBeforeMonth(y, m - 1) + DaysInMonth(y, m - 1)

DaysBeforeYear(y) ==
  (y - 1) * 365 + ((y - 1) \div 4) - ((y - 1) \div 100) + ((y - 1) \div 400)

\* date.toordinal(): 1 is 0001-01-01
ToOrdinal(y, m, d) == DaysBeforeYear(y) + DaysBeforeMonth(y, m) + d

RECURSIVE MonthOfYearDay(_, _, _)
MonthOfYearDay(y, m, n) ==
  IF n <= DaysInMonth(y, m) THEN <<m, n>>
  ELSE MonthOfYearDay(y, m + 1, n - DaysInMonth(y, m))

\* date.fromordinal(n) for n >= 1, by the 400/100/4/1-year cycles
FromOrdinal(n) ==
  LET n0   == n - 1
      n400 == n0 \div 146097
      r400 == n0 % 146097
      n100 == r400 \div 36524
      r100 == r400 % 36524
      n4   == r100 \div 1461
      r4   == r100 % 1461
      n1   == r4 \div 365
      r1   == r4 % 365
      y    == n400 * 400 + n100 * 100 + n4 * 4 + n1 + 1
  IN IF n1 = 4 \/ n100 = 4
       THEN <<y - 1, 12, 31>>
       ELSE LET md == MonthOfYearDay(y, 1, r1 + 1)
            IN <<y, md[1], md[2]>>

\* datetime.replace(hour=, minute=, second=, microsecond=)
ReplaceTime(dt, h, mi, s, us) ==
  [dt EXCEPT !.hour = h, !.minute = mi, !.second = s, !.microsecond = us]

\* datetime - timedelta(days=n); OverflowError when the date leaves year 1..
SubDaysOverflows(dt, n) == ToOrdinal(dt.year, dt.month, dt.day) - n < 1

SubDays(dt, n) ==
  LET ymd == FromOrdinal(ToOrdinal(dt.year, dt.month, dt.day) - n)
  IN [dt EXCEPT !.year = ymd[1], !.month = ymd[2], !.day = ymd[3]]

\* datetime.isoformat() of a UTC datetime, as the text it prints
IsoFormatUtc(dt) == [stamp |-> dt, offset |-> 0]

(***************************************************************************)
(* Window computation, lines 164-168.                                      *)
(***************************************************************************)
WindowEnd(now) ==
  ReplaceTime(SubDays(ReplaceTime(now, 0, 0, 0, 0), 1), 23, 59, 59, 999999)

\* a window start d days, not d - 1 days, before the end
WindowStartShiftWholePeriod(days) == days

\* line 167: timedelta(days=days_to_collect - 1)
WindowStartShift(days) == days - 1

WindowRaises(now, days) ==
  SubDaysOverflows(WindowEnd(now), WindowStartShift(days))

WindowStart(now, days) ==
  ReplaceTime(SubDays(WindowEnd(now), WindowStartShift(days)), 0, 0, 0, 0)

(***************************************************************************)
(* The load document (response.content of the ENTSO-E request).            *)
(*   document   : sequence of TimeSeries, in document order                *)
(*   TimeSeries : sequence of Period elements, in document order           *)
(*   Period     : [start, points]; start is the timeInterval/start element *)
(*                and points the sequence of Point elements                *)
(*   start      : [kind, minute, offset, secs]; kind "absent" = no such    *)
(*                element, "bad" = text datetime.fromisoformat rejects,    *)
(*                "iso" = text it accepts: wall-clock minute, UTC offset   *)
(*                in minutes, and whether the text spells the seconds      *)
(*   Point      : [kind, text]; kind "absent" = no quantity element;       *)
(*                text is the quantity's characters, 0..9 for the digits   *)
(*                and NonDigit for any other character                     *)
(***************************************************************************)
NonDigit == 10

AbsentStart == [kind |-> "absent", minute |-> 0, offset |-> 0, secs |-> FALSE]
BadStart    == [kind |-> "bad", minute |-> 0, offset |-> 0, secs |-> FALSE]

\* Two kinds of Period a valid document is made of.
\*   "early": starts 00:00+00:00 (minute 0 UTC), every quantity "100"
\*   "late" : starts 02:00:00+01:00 (minute 60 UTC), quantities "200", "25",
\*            "25", ...
\* The j-th Period of the i-th TimeSeries is late when i + j is even, so a
\* document lists a late Period before an early one, and holds Points that
\* differ and Points that are equal.
KindAt(i, j) == IF (i + j) % 2 = 0 THEN "late" ELSE "early"

StartOf(kind) ==
  IF kind = "early"
    THEN [kind |-> "iso", minute |-> 0, offset |-> 0, secs |-> FALSE]
    ELSE [kind |-> "iso", minute |-> 120, offset |-> 60, secs |-> TRUE]

QuantityOf(kind, k) ==
  [kind |-> "text",
   text |-> IF kind = "early" THEN <<1, 0, 0>>
            ELSE IF k = 1 THEN <<2, 0, 0>> ELSE <<2, 5>>]

\* the j-th Period of the i-th TimeSeries, with n Points
PeriodAt(i, j, n) ==
  [start |-> StartOf(KindAt(i, j)),
   points |-> [k \in 1..n |-> QuantityOf(KindAt(i, j), k)]]

SeqsUpTo(S, n) == UNION {[1..k -> S] : k \in 0..n}

\* the i-th TimeSeries of a document, with at most m Periods
TimeSeriesAt(i, m) ==
  {[j \in 1..Len(c) |-> PeriodAt(i, j, c[j])] : c \in SeqsUpTo(0..MaxPoints, m)}

RECURSIVE PeriodCount(_)
PeriodCount(doc) ==
  IF doc = <<>> THEN 0 ELSE Len(Head(doc)) + PeriodCount(Tail(doc))

\* the documents of n TimeSeries holding at most `periods` Periods in all
RECURSIVE DocumentsOf(_, _)
DocumentsOf(n, periods) ==
  IF n = 0 THEN {<<>>}
  ELSE UNION {{Append(rest, ts) : ts \in TimeSeriesAt(n, periods - PeriodCount(rest))} :
                rest \in DocumentsOf(n - 1, periods)}

\* documents every element of which is present and parseable: at most
\* MaxTimeSeries TimeSeries, MaxPeriods Periods in the whole document and
\* MaxPoints Points in a Period
ValidDocuments == UNION {DocumentsOf(n, MaxPeriods) : n \in 0..MaxTimeSeries}

AbsentQuantity == [kind |-> "absent", text |-> <<>>]
BadQuantities == {AbsentQuantity, [kind |-> "text", text |-> <<1, NonDigit>>]}

HasDefect(period) ==
  \/ period.start.kind # "iso"
  \/ \E k \in 1..Len(period.points) : period.points[k] \in BadQuantities

IsMalformed(doc) ==
  \E i \in 1..Len(doc) : \E j \in 1..Len(doc[i]) : HasDefect(doc[i][j])

\* well-formed XML that fails the schema's expectations: one TimeSeries with
\* one Period that lacks its start or a quantity, or holds unparseable text
MalformedDocuments ==
  {<< <<period>> >> :
     period \in {q \in [start : {StartOf("early"), AbsentStart, BadStart},
                        points : SeqsUpTo({QuantityOf("early", 1)} \cup BadQuantities,
                                          MaxPoints)] : HasDefect(q)}}

LoadDocuments == ValidDocuments \cup MalformedDocuments

(***************************************************************************)
(* get_entsoe_load, lines 65-103.  A call's result is [exc, value]: exc is *)
(* "none" on a return, else the exception that leaves the function.        *)
(***************************************************************************)
Returned(v) == [exc |-> "none", value |-> v]
Raised(e) == [exc |-> e, value |-> <<>>]

\* datetime.fromisoformat(text): wall-clock minute and utcoffset
FromIsoFormat(text) == [minute |-> text.minute, offset |-> text.offset]

\* datetime.isoformat(): always spells the seconds and the offset
IsoFormat(dt) ==
  [kind |-> "iso", minute |-> dt.minute, offset |-> dt.offset, secs |-> TRUE]

\* the instant a start text or a 'time' text denotes, in minutes UTC
InstantOf(text) == text.minute - text.offset

\* float(text)
FloatRaises(text) ==
  text = <<>> \/ \E k \in 1..Len(text) : text[k] = NonDigit

RECURSIVE FloatOf(_)
FloatOf(text) ==
  IF text = <<>> THEN 0
  ELSE 10 * FloatOf(SubSeq(text, 1, Len(text) - 1)) + text[Len(text)]

\* a parser that advances the timestamp by a quarter of an hour per Point
LoadPointAtPosition(start_date, k, quantity) ==
  [time |-> IsoFormat([start_date EXCEPT !.minute = @ + 15 * (k - 1)]),
   load_kwh |-> quantity]

\* lines 90-93: the dict appended for the k-th Point of a Period
LoadPoint(start_date, k, quantity) ==
  [time |-> IsoFormat(start_date), load_kwh |-> quantity]

\* lines 88-93: the loop over period.findall('.//ns:Point')
RECURSIVE ParsePoints(_, _, _, _)
ParsePoints(start_date, pts, k, load_points) ==
  IF k > Len(pts) THEN Returned(load_points)
  ELSE IF pts[k].kind = "absent" THEN Raised("AttributeError")
  ELSE IF FloatRaises(pts[k].text) THEN Raised("ValueError")
  ELSE ParsePoints(start_date, pts, k + 1,
                   Append(load_points,
                          LoadPoint(start_date, k, FloatOf(pts[k].text))))

\* line 83: timeseries.find('.//ns:Period'), the first Period or None
FindPeriod(timeseries) ==
  IF timeseries = <<>> THEN <<>> ELSE <<timeseries[1]>>

\* lines 82-93: the loop over root.findall('.//ns:TimeSeries')
RECURSIVE ParseTimeSeries(_, _, _)
ParseTimeSeries(doc, i, load_points) ==
  IF i > Len(doc) THEN Returned(load_points)
  ELSE LET found == FindPeriod(doc[i]) IN
    IF found = <<>> THEN ParseTimeSeries(doc, i + 1, load_points)
    ELSE LET period == found[1] IN
      IF period.start.kind = "absent" THEN Raised("AttributeError")
      ELSE IF period.start.kind = "bad" THEN Raised("ValueError")
      ELSE LET r == ParsePoints(FromIsoFormat(period.start), period.points,
                                1, load_points)
           IN IF r.exc # "none" THEN r
              ELSE ParseTimeSeries(doc, i + 1, r.value)

\* lines 81-96
ParseLoadDocument(doc) == ParseTimeSeries(doc, 1, <<>>)

\* the responses requests.get can produce for the load request
NoDocument == <<>>
LoadResponses ==
  {[kind |-> k, doc |-> NoDocument] : k \in {"ConnectionError", "HTTPError", "NotXml"}}
  \cup {[kind |-> "Xml", doc |-> d] : d \in LoadDocuments}

\* lines 66-96: the try body
LoadTryBody(resp) ==
  IF resp.kind = "ConnectionError" THEN Raised("RequestException")
  ELSE IF resp.kind = "HTTPError" THEN Raised("RequestException")
  ELSE IF resp.kind = "NotXml" THEN Raised("ParseError")
  ELSE ParseLoadDocument(resp.doc)

\* lines 98-103: the two except clauses
LoadHandlerCatches(exc) == exc \in {"RequestException", "ParseError"}

GetEntsoeLoad(resp) ==
  LET r == LoadTryBody(resp)
  IN IF LoadHandlerCatches(r.exc) THEN Returned(<<>>) ELSE r

\* what the response is, for the record of a run
LoadOutcome(resp) ==
  IF resp.kind # "Xml" THEN resp.kind
  ELSE IF IsMalformed(resp.doc) THEN "Malformed" ELSE "Valid"

(***************************************************************************)
(* get_co2_intensity, lines 119-126.  A Python value is [kind, val]:       *)
(* kind "num" a number, "None" the None object, "unset" not yet bound.     *)
(***************************************************************************)
Num(n) == [kind |-> "num", val |-> n]
PyNone == [kind |-> "None", val |-> 0]
Unset == [kind |-> "unset", val |-> 0]

Intensities == {0, 400}

\* ConnectionError: requests.get raises; HTTPError: raise_for_status raises;
\* BadJson: response.json() raises requests' JSONDecodeError, a
\* RequestException; NoKey: a JSON object without "carbonIntensity";
\* Null: {"carbonIntensity": null}; Value: {"carbonIntensity": val}
Co2Responses ==
  {[kind |-> k, val |-> 0] : k \in {"ConnectionError", "HTTPError", "BadJson", "NoKey", "Null"}}
  \cup {[kind |-> "Value", val |-> v] : v \in Intensities}

\* line 123: data.get("carbonIntensity", 0)
DataGet(resp) ==
  IF resp.kind = "NoKey" THEN Num(0)
  ELSE IF resp.kind = "Null" THEN PyNone
  ELSE Num(resp.val)

GetCo2Intensity(resp) ==
  IF resp.kind \in {"ConnectionError", "HTTPError", "BadJson"}
    THEN Num(0)
    ELSE DataGet(resp)

(***************************************************************************)
(* get_epex_prices, lines 141-144.                                         *)
(***************************************************************************)
StubPrice == 100

GetEpexPrices(start, end) ==
  << [time |-> IsoFormatUtc(start), price_eur_kwh |-> StubPrice] >>

(***************************************************************************)
(* Composition of the batch, lines 179-202.                                *)
(***************************************************************************)
ManufacturingFactor == 23

\* a composer that takes the latest price, not the first
PriceOfLast(prices) ==
  IF prices # <<>> THEN prices[Len(prices)].price_eur_kwh ELSE 0

\* line 188
PriceOf(prices) ==
  IF prices # <<>> THEN prices[1].price_eur_kwh ELSE 0

\* lines 184-201: the point built for one load point
ComposePoint(load, co2, prices) ==
  LET energy_kwh == load.load_kwh * ManufacturingFactor
  IN [measurement |-> "manufacturing_energy",
      time |-> load.time,
      fields |-> [energy_kwh |-> energy_kwh,
                  co2eq_g |-> energy_kwh * co2.val,
                  cost_eur |-> energy_kwh * PriceOf(prices),
                  co2_intensity |-> co2.val,
                  price_eur_kwh |-> PriceOf(prices)]]

\* lines 182-202: float * None raises TypeError in the first iteration
ComposePoints(loads, co2, prices) ==
  IF loads # <<>> /\ co2.kind # "num" THEN Raised("TypeError")
  ELSE Returned([k \in 1..Len(loads) |-> ComposePoint(loads[k], co2, prices)])

\* a writer that hands the sink one record at a time
WriteCallsPerPoint(batch) == [k \in 1..Len(batch) |-> <<batch[k]>>]

\* a writer without the emptiness test of line 205
WriteCallsUnguarded(batch) == <<batch>>

\* lines 205-209: the batches handed to write_points, in call order
WriteCalls(batch) == IF batch # <<>> THEN <<batch>> ELSE <<>>

(***************************************************************************)
(* State.                                                                  *)
(*   entry         who runs: "main" is main(), lines 214-222; "direct" is  *)
(*                 a caller that constructs a collector and calls the      *)
(*                 module-level function of line 155 on it                 *)
(*   pc            the position of the control flow                       *)
(*   influx_client "none" before __init__, then "connected" or "failed"    *)
(*   ctor_raised   an exception left __init__                              *)
(*   run_raised    an exception left collect_and_store_data (line 155)     *)
(*   clock         the instant datetime.now(timezone.utc) returns          *)
(*   content       the document handed to the parse step on its own        *)
(*   parse_result  what the parse step made of content                     *)
(*   load_outcome, co2_outcome   what the two HTTP responses of a run were *)
(*   writes        the batches handed to influx_client.write_points        *)
(*   log           the error, warning and success messages logged          *)
(*   calls         the fetch methods invoked, in order                     *)
(***************************************************************************)
\* days_to_collect: the default of line 155, and a day count that takes the
\* window's start before year 1
DefaultDays == 7
HugeDays == 800000

Dates == {<<2024, 3, 10>>, <<2024, 3, 1>>, <<2024, 1, 1>>, <<2023, 3, 3>>, <<2025, 1, 5>>}
TimesOfDay == {<<0, 0, 0, 0>>, <<12, 0, 0, 0>>, <<23, 59, 59, 999999>>}

Instants ==
  {DateTime(d[1], d[2], d[3], t[1], t[2], t[3], t[4]) : d \in Dates, t \in TimesOfDay}

RunInstants ==
  {DateTime(2024, 3, 10, 12, 0, 0, 0), DateTime(2024, 1, 1, 0, 0, 0, 0)}

RunDays == {1, DefaultDays, HugeDays}

Idle ==
  /\ influx_client = "none" /\ ctor_raised = FALSE /\ run_raised = FALSE
  /\ today_utc = NoDatetime /\ days_to_collect = 0
  /\ start_utc = NoDatetime /\ end_utc = NoDatetime
  /\ content = NoDocument /\ parse_result = Returned(<<>>)
  /\ load_outcome = "none" /\ co2_outcome = "none"
  /\ load_data = <<>> /\ co2_intensity = Unset /\ price_data = <<>>
  /\ points = <<>> /\ writes = <<>> /\ log = <<>> /\ calls = <<>>

Init ==
  /\ entry \in {"main", "direct"}
  /\ pc = "construct"
  /\ clock \in RunInstants
  /\ Idle

(***************************************************************************)
(* EnergyDataCollector.__init__, lines 22-38.                              *)
(***************************************************************************)
\* a handler that logs and does not re-raise
InitSwallows(connected) == FALSE

\* lines 36-38: the handler re-raises
InitRaises(connected) == ~connected

Construct ==
  /\ pc = "construct"
  /\ \E connected \in BOOLEAN :
       LET raised == InitRaises(connected) IN
         /\ influx_client' = IF connected THEN "connected" ELSE "failed"
         /\ ctor_raised' = raised
         /\ log' = Append(log, IF connected THEN "info: Connected to InfluxDB"
                                ELSE "error: InfluxDB Connection failed")
         /\ pc' = IF raised
                    THEN (IF entry = "main" THEN "main_except" ELSE "done")
                    ELSE (IF entry = "main" THEN "main_call" ELSE "run_call")
  /\ UNCHANGED <<entry, run_raised, clock, today_utc, days_to_collect,
                 start_utc, end_utc, content, parse_result, load_outcome,
                 co2_outcome, load_data, co2_intensity, price_data, points,
                 writes, calls>>

(***************************************************************************)
(* main, lines 218-222.  collector.collect_and_store_data resolves to the  *)
(* method of lines 146-152, whose body is its docstring: it returns None.  *)
(***************************************************************************)
MainCall ==
  /\ pc = "main_call"
  /\ pc' = "done"
  /\ UNCHANGED <<entry, influx_client, ctor_raised, run_raised, clock,
                 today_utc, days_to_collect, start_utc, end_utc, content,
                 parse_result, load_outcome, co2_outcome, load_data,
                 co2_intensity, price_data, points, writes, log, calls>>

MainExcept ==
  /\ pc = "main_except"
  /\ log' = Append(log, "error: Script execution failed")
  /\ pc' = "done"
  /\ UNCHANGED <<entry, influx_client, ctor_raised, run_raised, clock,
                 today_utc, days_to_collect, start_utc, end_utc, content,
                 parse_result, load_outcome, co2_outcome, load_data,
                 co2_intensity, price_data, points, writes, calls>>

(***************************************************************************)
(* The module-level collect_and_store_data, lines 155-212.                 *)
(***************************************************************************)
RunCall ==
  /\ pc = "run_call"
  /\ \E d \in RunDays : days_to_collect' = d
  /\ pc' = "window"
  /\ UNCHANGED <<entry, influx_client, ctor_raised, run_raised, clock,
                 today_utc, start_utc, end_utc, content, parse_result,
                 load_outcome, co2_outcome, load_data, co2_intensity,
                 price_data, points, writes, log, calls>>

\* lines 164-170, outside the try statement
ComputeWindow ==
  /\ pc = "window"
  /\ today_utc' = clock
  /\ IF WindowRaises(clock, days_to_collect)
       THEN /\ run_raised' = TRUE
            /\ pc' = "done"
            /\ UNCHANGED <<start_utc, end_utc>>
       ELSE /\ end_utc' = WindowEnd(clock)
            /\ start_utc' = WindowStart(clock, days_to_collect)
            /\ pc' = "fetch_load"
            /\ UNCHANGED run_raised
  /\ UNCHANGED <<entry, influx_client, ctor_raised, clock, days_to_collect,
                 content, parse_result, load_outcome, co2_outcome, load_data,
                 co2_intensity, price_data, points, writes, log, calls>>

\* line 174
FetchLoad ==
  /\ pc = "fetch_load"
  /\ \E resp \in LoadResponses :
       LET r == GetEntsoeLoad(resp) IN
         /\ load_outcome' = LoadOutcome(resp)
         /\ IF r.exc = "none"
              THEN /\ load_data' = r.value
                   /\ pc' = "fetch_co2"
                   /\ log' = IF LoadHandlerCatches(LoadTryBody(resp).exc)
                               THEN Append(log, "error: ENTSO-E load fetch failed")
                               ELSE log
              ELSE /\ pc' = "run_except"
                   /\ UNCHANGED <<load_data, log>>
  /\ calls' = Append(calls, "get_entsoe_load")
  /\ UNCHANGED <<entry, influx_client, ctor_raised, run_raised, clock,
                 today_utc, days_to_collect, start_utc, end_utc, content,
                 parse_result, co2_outcome, co2_intensity, price_data,
                 points, writes>>

\* line 175
FetchCo2 ==
  /\ pc = "fetch_co2"
  /\ \E resp \in Co2Responses :
       /\ co2_outcome' = resp.kind
       /\ co2_intensity' = GetCo2Intensity(resp)
       /\ log' = IF resp.kind \in {"ConnectionError", "HTTPError", "BadJson"}
                   THEN Append(log, "error: Electricity Maps API request failed")
                   ELSE log
  /\ calls' = Append(calls, "get_co2_intensity")
  /\ pc' = "fetch_prices"
  /\ UNCHANGED <<entry, influx_client, ctor_raised, run_raised, clock,
                 today_utc, days_to_collect, start_utc, end_utc, content,
                 parse_result, load_outcome, load_data, price_data, points,
                 writes>>

\* line 176
FetchPrices ==
  /\ pc = "fetch_prices"
  /\ price_data' = GetEpexPrices(start_utc, end_utc)
  /\ calls' = Append(calls, "get_epex_prices")
  /\ pc' = "compose"
  /\ UNCHANGED <<entry, influx_client, ctor_raised, run_raised, clock,
                 today_utc, days_to_collect, start_utc, end_utc, content,
                 parse_result, load_outcome, co2_outcome, load_data,
                 co2_intensity, points, writes, log>>

\* lines 179-202
Compose ==
  /\ pc = "compose"
  /\ LET r == ComposePoints(load_data, co2_intensity, price_data) IN
       IF r.exc = "none"
         THEN points' = r.value /\ pc' = "write"
         ELSE points' = points /\ pc' = "run_except"
  /\ UNCHANGED <<entry, influx_client, ctor_raised, run_raised, clock,
                 today_utc, days_to_collect, start_utc, end_utc, content,
                 parse_result, load_outcome, co2_outcome, load_data,
                 co2_intensity, price_data, writes, log, calls>>

\* lines 205-209; write_points returns or raises
WritePoints ==
  /\ pc = "write"
  /\ writes' = writes \o WriteCalls(points)
  /\ IF WriteCalls(points) = <<>>
       THEN /\ log' = Append(log, "warning: No data points to write")
            /\ pc' = "done"
       ELSE \E written \in BOOLEAN :
              IF written
                THEN /\ log' = Append(log, "info: Successfully wrote data points")
                     /\ pc' = "done"
                ELSE /\ log' = log
                     /\ pc' = "run_except"
  /\ UNCHANGED <<entry, influx_client, ctor_raised, run_raised, clock,
                 today_utc, days_to_collect, start_utc, end_utc, content,
                 parse_result, load_outcome, co2_outcome, load_data,
                 co2_intensity, price_data, points, calls>>

\* lines 211-212
RunExcept ==
  /\ pc = "run_except"
  /\ log' = Append(log, "error: Data collection and storage failed")
  /\ pc' = "done"
  /\ UNCHANGED <<entry, influx_client, ctor_raised, run_raised, clock,
                 today_utc, days_to_collect, start_utc, end_utc, content,
                 parse_result, load_outcome, co2_outcome, load_data,
                 co2_intensity, price_data, points, writes, calls>>

Next ==
  \/ Construct
  \/ MainCall
  \/ MainExcept
  \/ RunCall
  \/ ComputeWindow
  \/ FetchLoad
  \/ FetchCo2
  \/ FetchPrices
  \/ Compose
  \/ WritePoints
  \/ RunExcept

Spec == Init /\ [][Next]_vars

(***************************************************************************)
(* The window computation on its own: every instant and day count.         *)
(***************************************************************************)
InitWindow ==
  /\ entry = "direct"
  /\ pc = "window"
  /\ clock \in Instants
  /\ influx_client = "connected" /\ ctor_raised = FALSE /\ run_raised = FALSE
  /\ today_utc = NoDatetime /\ days_to_collect \in 1..MaxDays
  /\ start_utc = NoDatetime /\ end_utc = NoDatetime
  /\ content = NoDocument /\ parse_result = Returned(<<>>)
  /\ load_outcome = "none" /\ co2_outcome = "none"
  /\ load_data = <<>> /\ co2_intensity = Unset /\ price_data = <<>>
  /\ points = <<>> /\ writes = <<>> /\ log = <<>> /\ calls = <<>>

NextWindow == ComputeWindow

SpecWindow == InitWindow /\ [][NextWindow]_vars

(***************************************************************************)
(* The parse step of get_entsoe_load on its own: every load document.      *)
(***************************************************************************)
InitParse ==
  /\ entry = "direct"
  /\ pc = "parse"
  /\ clock = NoDatetime
  /\ influx_client = "connected" /\ ctor_raised = FALSE /\ run_raised = FALSE
  /\ today_utc = NoDatetime /\ days_to_collect = 0
  /\ start_utc = NoDatetime /\ end_utc = NoDatetime
  /\ content \in LoadDocuments /\ parse_result = Returned(<<>>)
  /\ load_outcome = "none" /\ co2_outcome = "none"
  /\ load_data = <<>> /\ co2_intensity = Unset /\ price_data = <<>>
  /\ points = <<>> /\ writes = <<>> /\ log = <<>> /\ calls = <<>>

\* lines 81-96 applied to root = content
ParseStep ==
  /\ pc = "parse"
  /\ parse_result' = ParseLoadDocument(content)
  /\ pc' = "parsed"
  /\ UNCHANGED <<entry, influx_client, ctor_raised, run_raised, clock,
                 today_utc, days_to_collect, start_utc, end_utc, content,
                 load_outcome, co2_outcome, load_data, co2_intensity,
                 price_data, points, writes, log, calls>>

NextParse == ParseStep

SpecParse == InitParse /\ [][NextParse]_vars

(***************************************************************************)
(* The composition and the write on their own: every load series,          *)
(* intensity and price sequence, the empty ones included.                  *)
(***************************************************************************)
LoadPointSamples ==
  {[time |-> IsoFormat(FromIsoFormat(StartOf(kind))), load_kwh |-> q] :
     kind \in {"early", "late"}, q \in {0, 100}}

PricePointSamples ==
  {[time |-> IsoFormatUtc(DateTime(2024, 3, 3, 0, 0, 0, 0)), price_eur_kwh |-> p] :
     p \in {StubPrice, 250}}

InitCompose ==
  /\ entry = "direct"
  /\ pc = "compose"
  /\ clock = NoDatetime
  /\ influx_client = "connected" /\ ctor_raised = FALSE /\ run_raised = FALSE
  /\ today_utc = NoDatetime /\ days_to_collect = 0
  /\ start_utc = NoDatetime /\ end_utc = NoDatetime
  /\ content = NoDocument /\ parse_result = Returned(<<>>)
  /\ load_outcome = "none" /\ co2_outcome = "none"
  /\ load_data \in SeqsUpTo(LoadPointSamples, MaxLoad)
  /\ co2_intensity \in {PyNone} \cup {Num(v) : v \in Intensities}
  /\ price_data \in SeqsUpTo(PricePointSamples, MaxPrices)
  /\ points = <<>> /\ writes = <<>> /\ log = <<>> /\ calls = <<>>

NextCompose ==
  \/ Compose
  \/ WritePoints
  \/ RunExcept

SpecCompose == InitCompose /\ [][NextCompose]_vars

(***************************************************************************)
(* Properties.                                                             *)
(***************************************************************************)
InLog(msg) == \E n \in 1..Len(log) : log[n] = msg

WarningNoData == "warning: No data points to write"
SuccessWrote == "info: Successfully wrote data points"
RunFailed == "error: Data collection and storage failed"

\* C1: in a collection run the sink's write is called at most once, and the
\* batch it is given is the whole composed batch, one record for every load
\* point of the load fetch, never a strict subset of it.
C1_WholeBatchWrittenOnce ==
  /\ Len(writes) <= 1
  /\ \A n \in 1..Len(writes) :
       /\ writes[n] = points
       /\ Len(writes[n]) = Len(load_data)
       /\ \A k \in 1..Len(load_data) : writes[n][k].time = load_data[k].time

C1_Witness ==
  /\ pc = "done"
  /\ Len(writes) = 1
  /\ Len(writes[1]) >= 2
  /\ Len(load_data) = Len(writes[1])

\* C2: when main() runs and the sink startup succeeds, the collection run is
\* performed: by the time main is done the load fetch has been invoked (and
\* the intensity and price fetches after a load fetch that returned).
C2_MainPerformsCollection ==
  (entry = "main" /\ pc = "done" /\ influx_client = "connected")
    => /\ Len(calls) >= 1
       /\ calls[1] = "get_entsoe_load"

\* C3: a malformed load document (not well-formed XML, a missing start or
\* quantity, unparseable start or quantity text) gives zero load points, and
\* the run goes on to the intensity and price fetches and ends with nothing
\* written, without taking the run-level failure path.
C3_MalformedDocumentDegrades ==
  load_outcome \in {"NotXml", "Malformed"}
    => /\ load_data = <<>>
       /\ pc # "run_except"
       /\ ~InLog(RunFailed)
       /\ pc = "done" => (Len(calls) = 3 /\ writes = <<>> /\ InLog(WarningNoData))

\* the calendar day after a date <<year, month, day>>
NextDay(date) ==
  IF date[3] < DaysInMonth(date[1], date[2]) THEN <<date[1], date[2], date[3] + 1>>
  ELSE IF date[2] < 12 THEN <<date[1], date[2] + 1, 1>>
  ELSE <<date[1] + 1, 1, 1>>

RECURSIVE DaysAfter(_, _)
DaysAfter(date, n) == IF n = 0 THEN date ELSE DaysAfter(NextDay(date), n - 1)

DateOf(dt) == <<dt.year, dt.month, dt.day>>
TimeOf(dt) == <<dt.hour, dt.minute, dt.second, dt.microsecond>>

WindowComputed == pc = "fetch_load"

\* C4 as stated: the window ends at 23:59:59.999999 of the day before the
\* invocation day and starts at 00:00:00 of the day d days before the end's
\* day; for 2024-03-10T12:00:00Z and d = 7 it is
\* [2024-03-02T00:00:00Z, 2024-03-09T23:59:59.999999Z].
C4_StartDaysBeforeEnd ==
  WindowComputed
    => /\ NextDay(DateOf(end_utc)) = DateOf(today_utc)
       /\ TimeOf(end_utc) = <<23, 59, 59, 999999>>
       /\ DaysAfter(DateOf(start_utc), days_to_collect) = DateOf(end_utc)
       /\ TimeOf(start_utc) = <<0, 0, 0, 0>>
       /\ (today_utc = DateTime(2024, 3, 10, 12, 0, 0, 0) /\ days_to_collect = 7)
            => /\ start_utc = DateTime(2024, 3, 2, 0, 0, 0, 0)
               /\ end_utc = DateTime(2024, 3, 9, 23, 59, 59, 999999)

\* C4, amended: the window ends at 23:59:59.999999 of the day before the
\* invocation day and starts at 00:00:00 of the day d - 1 days before the
\* end's day, so it spans exactly d whole days and never the current day;
\* for 2024-03-10T12:00:00Z and d = 7 it is
\* [2024-03-03T00:00:00Z, 2024-03-09T23:59:59.999999Z].
C4_WindowOfWholeDays ==
  WindowComputed
    => /\ NextDay(DateOf(end_utc)) = DateOf(today_utc)
       /\ TimeOf(end_utc) = <<23, 59, 59, 999999>>
       /\ DaysAfter(DateOf(start_utc), days_to_collect - 1) = DateOf(end_utc)
       /\ TimeOf(start_utc) = <<0, 0, 0, 0>>
       /\ (today_utc = DateTime(2024, 3, 10, 12, 0, 0, 0) /\ days_to_collect = 7)
            => /\ start_utc = DateTime(2024, 3, 3, 0, 0, 0, 0)
               /\ end_utc = DateTime(2024, 3, 9, 23, 59, 59, 999999)

C4_Witness ==
  /\ WindowComputed
  /\ today_utc = DateTime(2024, 3, 10, 12, 0, 0, 0)
  /\ days_to_collect = 7
  /\ start_utc = DateTime(2024, 3, 3, 0, 0, 0, 0)
  /\ end_utc = DateTime(2024, 3, 9, 23, 59, 59, 999999)

RECURSIVE Flatten(_)
Flatten(ss) == IF ss = <<>> THEN <<>> ELSE Head(ss) \o Flatten(Tail(ss))

\* the Points of a Period, each with the instant of the Period's start
PointsOfPeriod(period) ==
  [k \in 1..Len(period.points) |->
     [instant |-> InstantOf(period.start),
      load_kwh |-> FloatOf(period.points[k].text)]]

PointsOfPeriods(periods) ==
  Flatten([j \in 1..Len(periods) |-> PointsOfPeriod(periods[j])])

AllPeriods(doc) == Flatten(doc)

FirstPeriods(doc) ==
  Flatten([i \in 1..Len(doc) |-> IF doc[i] = <<>> THEN <<>> ELSE <<doc[i][1]>>])

IsSeriesOf(load_points, expected) ==
  /\ Len(load_points) = Len(expected)
  /\ \A n \in 1..Len(expected) :
       /\ load_points[n].time.kind = "iso"
       /\ InstantOf(load_points[n].time) = expected[n].instant
       /\ load_points[n].load_kwh = expected[n].load_kwh

ParsedValid == pc = "parsed" /\ ~IsMalformed(content)

\* C5 as stated: for a valid document with N Points over M Periods, any
\* number of Periods in a TimeSeries, the parse step returns exactly the N
\* load points, in document order, each with the start instant of the Period
\* that encloses it.
C5_EveryPointOfEveryPeriod ==
  ParsedValid
    => /\ parse_result.exc = "none"
       /\ IsSeriesOf(parse_result.value, PointsOfPeriods(AllPeriods(content)))

\* C5, amended: for a valid document the parse step returns exactly one load
\* point for every Point of the first Period of each TimeSeries, in document
\* order, each with the start instant of that Period, duplicates kept and
\* nothing sorted; these are all N Points of the document when no
\* TimeSeries holds more than one Period.
C5_EveryPointOfFirstPeriods ==
  ParsedValid
    => /\ parse_result.exc = "none"
       /\ IsSeriesOf(parse_result.value, PointsOfPeriods(FirstPeriods(content)))
       /\ (\A i \in 1..Len(content) : Len(content[i]) <= 1)
            => Len(parse_result.value) = Len(PointsOfPeriods(AllPeriods(content)))

C5_Witness ==
  /\ ParsedValid
  /\ Len(content) = 2
  /\ Len(content[1]) = 2
  /\ Len(parse_result.value) = 4
  /\ parse_result.value[1] # parse_result.value[2]
  /\ parse_result.value[3] = parse_result.value[4]
  /\ InstantOf(parse_result.value[1].time) > InstantOf(parse_result.value[3].time)

\* C6: no exception crosses the boundary of collect_and_store_data, whatever
\* step raises it, the window computation included.
C6_NoExceptionLeavesRun == ~run_raised

Unusable == {"ConnectionError", "HTTPError", "BadJson", "NoKey", "Null"}

\* C7: when the intensity fetch fails or its response has no usable
\* carbonIntensity, get_co2_intensity returns 0 and the run goes on: the
\* batch has one record per load point, with co2_intensity 0, co2eq_g 0 and
\* energy and cost as with any other intensity.
C7_UnusableIntensityIsZero ==
  co2_outcome \in Unusable
    => /\ co2_intensity = Num(0)
       /\ pc \in {"write", "done"} /\ load_data # <<>>
            => /\ Len(points) = Len(load_data)
               /\ \A k \in 1..Len(points) :
                    /\ points[k].fields.co2_intensity = 0
                    /\ points[k].fields.co2eq_g = 0
                    /\ points[k].fields.energy_kwh
                         = load_data[k].load_kwh * ManufacturingFactor
                    /\ points[k].fields.cost_eur
                         = points[k].fields.energy_kwh * StubPrice

\* C8: when the composed batch is empty, in particular when the load fetch
\* returned no points (empty document, network error, bad status), the
\* sink's write is never called, no empty batch is ever written, and the
\* warning is logged and not the success message.
C8_EmptyBatchIsNotWritten ==
  /\ \A n \in 1..Len(writes) : writes[n] # <<>>
  /\ load_data = <<>> => writes = <<>>
  /\ load_outcome \in {"ConnectionError", "HTTPError"} => load_data = <<>>
  /\ (pc = "done" /\ Len(calls) = 3 /\ load_data = <<>>)
       => /\ InLog(WarningNoData)
          /\ ~InLog(SuccessWrote)

C8_Witness ==
  /\ pc = "done"
  /\ load_outcome = "HTTPError"
  /\ Len(calls) = 3
  /\ writes = <<>>
  /\ InLog(WarningNoData)

\* C9: the composed batch has as many records as the load series has points,
\* in the same order, the k-th record with the k-th load point's timestamp,
\* and every record with the one intensity and the one price: the first
\* price point's, or 0 when there is no price point.
C9_BatchFollowsLoadSeries ==
  pc = "write"
    => /\ Len(points) = Len(load_data)
       /\ \A k \in 1..Len(load_data) :
            /\ points[k].time = load_data[k].time
            /\ points[k].fields.co2_intensity = co2_intensity.val
            /\ points[k].fields.price_eur_kwh
                 = IF price_data = <<>> THEN 0 ELSE price_data[1].price_eur_kwh

C9_Witness ==
  /\ pc = "write"
  /\ Len(points) = 2
  /\ points[1].time # points[2].time
  /\ price_data = <<>>
  /\ points[2].fields.price_eur_kwh = 0

\* C10: when the sink connection or its ping fails in __init__, the
\* exception leaves the constructor, no load, intensity or price fetch is
\* ever issued and nothing is written; no other case raises from __init__.
C10_FailedStartupAborts ==
  /\ influx_client = "failed"
       => /\ ctor_raised
          /\ calls = <<>>
          /\ writes = <<>>
          /\ pc \in {"main_except", "done"}
  /\ ctor_raised => influx_client = "failed"

C10_Witness ==
  /\ pc = "done"
  /\ influx_client = "failed"
  /\ ctor_raised
  /\ InLog("error: Script execution failed")

====
